---- MODULE Spec2Model ----
(***************************************************************************)
(* EDGAR filings EPS parser (src/parser.py).                               *)
(*                                                                         *)
(* Texts are TLA+ strings, read character by character with Len and        *)
(* SubSeq.  Regular expressions of the source are values of a small        *)
(* regex algebra (Lit, Opt, Alt, Cat, Ws, Dash, Wb) matched by Ends, so    *)
(* the keyword catalog is the source's catalog, pattern for pattern.       *)
(* Python's None is the string None; the em dash U+2014 of the source's    *)
(* character class [-\u2014] is written EmDash.                             *)
(***************************************************************************)
EXTENDS Integers, Sequences, FiniteSets, TLC

VARIABLES
    files,              \* main: files_to_process, the documents in listdir order
    idx,                \* main: position of the for loop over files_to_process
    pc,                 \* control position inside main / parse_html_filing
    soup,               \* parse_html_filing: the parsed document, NoSoup before
    found,              \* parse_html_filing: (eps_value, method, keyword_pattern)
    KEYWORD_FREQUENCY,  \* module global: pattern text -> successful matches
    results,            \* main: the rows collected for the CSV
    calls,              \* trace of the strategies run, per file position
    arg,                \* argument of the call under way
    ret                 \* return value of the call, Pending before it returns

vars == <<files, idx, pc, soup, found, KEYWORD_FREQUENCY, results, calls, arg, ret>>

None == "<None>"
Pending == "<pending>"
EmDash == "^"

-----------------------------------------------------------------------------
(* Characters and strings                                                  *)

Char(s, i) == SubSeq(s, i, i)

Digits == {"0", "1", "2", "3", "4", "5", "6", "7", "8", "9"}
UpperCase == "ABCDEFGHIJKLMNOPQRSTUVWXYZ"
LowerCase == "abcdefghijklmnopqrstuvwxyz"
Letters == {Char(UpperCase, k) : k \in 1..26} \cup {Char(LowerCase, k) : k \in 1..26}
WhiteSpace == {" ", "\t", "\n"}

IsDigit(c) == c \in Digits
IsSpace(c) == c \in WhiteSpace
\* \w of Python's re
IsWord(c) == c \in Letters \/ c \in Digits \/ c = "_"

\* re.IGNORECASE: both sides are compared in lower case
ToLower == [c \in {Char(UpperCase, k) : k \in 1..26} |->
                Char(LowerCase, CHOOSE k \in 1..26 : Char(UpperCase, k) = c)]
LowerChar(c) == IF c \in DOMAIN ToLower THEN ToLower[c] ELSE c

\* ''.join(parts[lo..hi])
RECURSIVE concat_range(_, _, _)
concat_range(parts, lo, hi) ==
    IF lo > hi THEN ""
    ELSE IF lo = hi THEN parts[lo]
    ELSE concat_range(parts, lo, (lo + hi) \div 2) \o concat_range(parts, (lo + hi) \div 2 + 1, hi)

\* ''.join(parts)
concat(parts) == concat_range(parts, 1, Len(parts))

lower(s) == concat([i \in 1..Len(s) |-> LowerChar(Char(s, i))])

\* str.strip(): leading and trailing whitespace removed
FirstNonSpace(s) == CHOOSE i \in 1..(Len(s) + 1) :
    /\ \A j \in 1..(i - 1) : IsSpace(Char(s, j))
    /\ i = Len(s) + 1 \/ ~IsSpace(Char(s, i))
LastNonSpace(s) == CHOOSE i \in 0..Len(s) :
    /\ \A j \in (i + 1)..Len(s) : IsSpace(Char(s, j))
    /\ i = 0 \/ ~IsSpace(Char(s, i))
strip(s) == SubSeq(s, FirstNonSpace(s), LastNonSpace(s))

\* ' '.join(s.split()): every whitespace run becomes one blank, none at the ends.
\* In the stripped text a whitespace run is replaced at its first character.
collapsed_char(s, i) ==
    IF ~IsSpace(Char(s, i)) THEN Char(s, i)
    ELSE IF i > 1 /\ ~IsSpace(Char(s, i - 1)) THEN " " ELSE ""
collapse(s) == concat([i \in 1..Len(s) |-> collapsed_char(s, i)])
join_split(s) == collapse(strip(s))

Min(S) == CHOOSE m \in S : \A n \in S : m <= n
Max(S) == CHOOSE m \in S : \A n \in S : m >= n

-----------------------------------------------------------------------------
(* Regular expressions                                                     *)

Lit(s) == [k |-> "lit", s |-> s]        \* literal text
Opt(r) == [k |-> "opt", r |-> r]        \* ( r )?
Alt(rs) == [k |-> "alt", rs |-> rs]     \* ( r1 | r2 | ... )
Cat(rs) == [k |-> "cat", rs |-> rs]     \* r1 r2 ...
Ws == [k |-> "ws"]                      \* \s*
Dash == [k |-> "dash"]                  \* [-—]
Wb == [k |-> "wb"]                      \* \b

\* \b at position i: between t[i-1] and t[i], exactly one is a word character
WordAt(t, i) == i >= 1 /\ i <= Len(t) /\ IsWord(Char(t, i))
WordBoundary(t, i) == WordAt(t, i - 1) # WordAt(t, i)

\* Ends(r, t, i): the positions just after a match of r that starts at t[i]
RECURSIVE Ends(_, _, _)
RECURSIVE EndsCat(_, _, _, _)
EndsCat(rs, n, t, from) ==
    IF n > Len(rs) \/ from = {} THEN from
    ELSE EndsCat(rs, n + 1, t, UNION {Ends(rs[n], t, i) : i \in from})
Ends(r, t, i) ==
    CASE r.k = "lit" ->
            IF i + Len(r.s) - 1 <= Len(t) /\ SubSeq(t, i, i + Len(r.s) - 1) = r.s
            THEN {i + Len(r.s)} ELSE {}
      [] r.k = "opt" -> Ends(r.r, t, i) \cup {i}
      [] r.k = "alt" -> UNION {Ends(r.rs[j], t, i) : j \in 1..Len(r.rs)}
      [] r.k = "cat" -> EndsCat(r.rs, 1, t, {i})
      [] r.k = "ws" -> {j \in i..(Len(t) + 1) : \A m \in i..(j - 1) : IsSpace(Char(t, m))}
      [] r.k = "dash" -> IF i <= Len(t) /\ Char(t, i) \in {"-", EmDash} THEN {i + 1} ELSE {}
      [] r.k = "wb" -> IF WordBoundary(t, i) THEN {i} ELSE {}

\* pattern.search(text) under re.IGNORECASE
search_from_any(r, t) == \E i \in 1..(Len(t) + 1) : Ends(r, t, i) # {}
re_search(r, text) == search_from_any(r, lower(text))

\* \d+ at t[i]: the position after the longest run of digits, 0 when there is none
DigitRunEnd(t, i) == CHOOSE j \in i..(Len(t) + 1) :
    /\ \A m \in i..(j - 1) : IsDigit(Char(t, m))
    /\ j = Len(t) + 1 \/ ~IsDigit(Char(t, j))
SpaceRunEnd(t, i) == CHOOSE j \in i..(Len(t) + 1) :
    /\ \A m \in i..(j - 1) : IsSpace(Char(t, m))
    /\ j = Len(t) + 1 \/ ~IsSpace(Char(t, j))
NonEmpty(i, j) == IF j > i THEN j ELSE 0
DigitsEnd(t, i) == IF i < 1 \/ i > Len(t) THEN 0 ELSE NonEmpty(i, DigitRunEnd(t, i))

\* \d+\.\d+ at t[i], greedy: the position after the match, 0 when there is none.
\* The first \d+ takes the whole digit run; a shorter run is followed by a digit,
\* never by the dot, so backtracking into it finds nothing more.
AfterDot(t, a) == IF a # 0 /\ a <= Len(t) /\ Char(t, a) = "." THEN DigitsEnd(t, a + 1) ELSE 0
DecimalEnd(t, i) == AfterDot(t, DigitsEnd(t, i))

\* \s* at t[i]: the position after the whitespace run
SkipSpace(t, i) == IF i < 1 \/ i > Len(t) THEN i ELSE SpaceRunEnd(t, i)

\* an optional single character c at t[i]: the position after it
SkipChar(t, i, c) == IF i >= 1 /\ i <= Len(t) /\ Char(t, i) = c THEN i + 1 ELSE i

\* int(s) for a string of decimal digits
DigitVal(c) == CHOOSE d \in 0..9 : Char("0123456789", d + 1) = c
RECURSIVE int(_)
int(s) == IF s = "" THEN 0 ELSE int(SubSeq(s, 1, Len(s) - 1)) * 10 + DigitVal(Char(s, Len(s)))

-----------------------------------------------------------------------------
(* Pre-compiled patterns, parser.py lines 82-109                           *)

\* YEAR_PATTERN = \b(20\d{2})\b at t[i]
YearAt(t, i) ==
    /\ i + 3 <= Len(t)
    /\ WordBoundary(t, i)
    /\ SubSeq(t, i, i + 1) = "20"
    /\ IsDigit(Char(t, i + 2)) /\ IsDigit(Char(t, i + 3))
    /\ WordBoundary(t, i + 4)

\* YEAR_PATTERN.findall(text): the starts of the matches, leftmost first (a match
\* is four characters between two word boundaries, so matches never overlap)
YEAR_PATTERN_findall(text) == {i \in 1..Len(text) : YearAt(text, i)}

first_year(text, i) == SubSeq(text, i, i + 3)

\* $ of Python's re: the end of the text, or just before a final newline
AtEnd(t, i) == i = Len(t) + 1 \/ (i = Len(t) /\ Char(t, i) = "\n")

\* EPS_VALUE_PATTERN.match(text): ^\(?\s*\$?\s*(\d+\.\d+)\s*\)?$
\* \s* and \)? are greedy; what they took is given back when $ fails
ValueTail(text, p5) ==
    /\ p5 # 0
    /\ \/ AtEnd(text, p5)
       \/ AtEnd(text, SkipSpace(text, p5))
       \/ AtEnd(text, SkipChar(text, SkipSpace(text, p5), ")"))
EPS_VALUE_PATTERN_match(text) ==
    ValueTail(text,
        DecimalEnd(text, SkipSpace(text, SkipChar(text, SkipSpace(text, SkipChar(text, 1, "(")), "$"))))

Common == Opt(Lit("common "))
LossParen == Opt(Lit(" (loss)"))
DashThen(word) == <<Ws, Dash, Ws, Lit(word)>>

EPS_KEYWORD_PATTERNS ==
    [basic |-> <<
        [tier |-> "basic", pattern |-> "basic earnings per (common )?share",
         re |-> Cat(<<Lit("basic earnings per "), Common, Lit("share")>>)],
        [tier |-> "basic",
         pattern |-> "net (income|earnings)( \\(loss\\))? per (common )?share\\s*[-^]\\s*basic",
         re |-> Cat(<<Lit("net "), Alt(<<Lit("income"), Lit("earnings")>>), LossParen,
                      Lit(" per "), Common, Lit("share")>> \o DashThen("basic"))],
        [tier |-> "basic", pattern |-> "(income|loss) \\(loss\\)? per share\\s*[-^]\\s*basic",
         re |-> Cat(<<Alt(<<Lit("income"), Lit("loss")>>), Lit(" (loss"), Opt(Lit(")")),
                      Lit(" per share")>> \o DashThen("basic"))],
        [tier |-> "basic", pattern |-> "\\bbasic eps\\b",
         re |-> Cat(<<Wb, Lit("basic eps"), Wb>>)],
        [tier |-> "basic", pattern |-> "\\bbasic\\b",
         re |-> Cat(<<Wb, Lit("basic"), Wb>>)] >>,
     diluted |-> <<
        [tier |-> "diluted", pattern |-> "diluted earnings per (common )?share",
         re |-> Cat(<<Lit("diluted earnings per "), Common, Lit("share")>>)],
        [tier |-> "diluted",
         pattern |-> "net (income|earnings)( \\(loss\\))? per (common )?share\\s*[-^]\\s*diluted",
         re |-> Cat(<<Lit("net "), Alt(<<Lit("income"), Lit("earnings")>>), LossParen,
                      Lit(" per "), Common, Lit("share")>> \o DashThen("diluted"))],
        [tier |-> "diluted", pattern |-> "(income|loss) \\(loss\\)? per share\\s*[-^]\\s*diluted",
         re |-> Cat(<<Alt(<<Lit("income"), Lit("loss")>>), Lit(" (loss"), Opt(Lit(")")),
                      Lit(" per share")>> \o DashThen("diluted"))],
        [tier |-> "diluted", pattern |-> "\\bdiluted eps\\b",
         re |-> Cat(<<Wb, Lit("diluted eps"), Wb>>)],
        [tier |-> "diluted", pattern |-> "per diluted (common )?share",
         re |-> Cat(<<Lit("per diluted "), Common, Lit("share")>>)] >>,
     generic |-> <<
        [tier |-> "generic", pattern |-> "\\beps\\b",
         re |-> Cat(<<Wb, Lit("eps"), Wb>>)],
        [tier |-> "generic",
         pattern |-> "(net )?(income|loss|earnings)( \\(loss\\))? per (common )?share",
         re |-> Cat(<<Opt(Lit("net ")), Alt(<<Lit("income"), Lit("loss"), Lit("earnings")>>),
                      LossParen, Lit(" per "), Common, Lit("share")>>)],
        [tier |-> "generic", pattern |-> "per (common )?share",
         re |-> Cat(<<Lit("per "), Common, Lit("share")>>)] >>]

\* the catalog in its listed order: the tiers basic, diluted, generic, and the
\* patterns of a tier as listed
Catalog ==
    EPS_KEYWORD_PATTERNS["basic"] \o EPS_KEYWORD_PATTERNS["diluted"] \o EPS_KEYWORD_PATTERNS["generic"]

\* the catalog with the patterns counted most often so far moved to the front
MostCounted(frequency) == Max({frequency[p] : p \in DOMAIN frequency})
IsMostCounted(entry) == KEYWORD_FREQUENCY[entry.pattern] = MostCounted(KEYWORD_FREQUENCY)
IsLessCounted(entry) == ~IsMostCounted(entry)
FrequencyOrder == SelectSeq(Catalog, IsMostCounted) \o SelectSeq(Catalog, IsLessCounted)

\* the catalog with the diluted tier tried before the basic tier
DilutedFirst ==
    EPS_KEYWORD_PATTERNS["diluted"] \o EPS_KEYWORD_PATTERNS["basic"] \o EPS_KEYWORD_PATTERNS["generic"]

\* for priority in ["basic", "diluted", "generic"]: for pattern in EPS_KEYWORD_PATTERNS[priority]
\* (lines 220-222 and 267-268): the order in which both strategies try the patterns
PatternOrder == Catalog

-----------------------------------------------------------------------------
(* _format_eps_value, parser.py lines 112-140                              *)

\* '(' in raw_string
Contains(s, c) == \E i \in 1..Len(s) : Char(s, i) = c

\* re.search(r'(\d+\.\d+)', raw_string).group(1), None when there is no match
first_decimal_at(s, i) == SubSeq(s, i, DecimalEnd(s, i) - 1)
first_decimal(s, starts) == IF starts = {} THEN None ELSE first_decimal_at(s, Min(starts))
numeric_search(s) == first_decimal(s, {i \in 1..Len(s) : DecimalEnd(s, i) # 0})

signed(is_negative, numeric_part) ==
    IF numeric_part = None THEN None
    ELSE IF is_negative THEN "-" \o numeric_part ELSE numeric_part

_format_eps_value(raw_string) ==
    IF raw_string = None \/ raw_string = "" THEN None
    ELSE signed(Contains(raw_string, "("), numeric_search(raw_string))

-----------------------------------------------------------------------------
(* Documents.  A document is a sequence of blocks in document order: a     *)
(* block is a piece of prose (kind "p", its text node) or a table (kind    *)
(* "table", its <tr> rows in order, each row the texts of its <td>/<th>    *)
(* cells in order).  fault names the exception the document provokes:      *)
(* "none", "open" (open() or BeautifulSoup raises), "table" (raised inside *)
(* _parse_eps_from_tables), "text" (raised inside _parse_eps_with_regex).  *)

Prose(text) == [kind |-> "p", text |-> text, rows |-> <<>>]
Table(rows) == [kind |-> "table", text |-> "", rows |-> rows]
Document(blocks, fault) == [blocks |-> blocks, fault |-> fault]

\* soup.find_all('table')
find_all_table(doc) == SelectSeq(doc.blocks, LAMBDA b : b.kind = "table")

\* cell.get_text(strip=True)
cell_text(cell) == strip(cell)

\* row.get_text(strip=True): the stripped strings of the row, joined by ''
row_get_text(row) == concat([i \in 1..Len(row) |-> strip(row[i])])

\* soup.get_text(strip=True): every stripped string of the document, joined by ''
table_get_text(rows) == concat([i \in 1..Len(rows) |-> row_get_text(rows[i])])
block_get_text(b) == IF b.kind = "p" THEN strip(b.text) ELSE table_get_text(b.rows)
soup_get_text(doc) == concat([i \in 1..Len(doc.blocks) |-> block_get_text(doc.blocks[i])])

-----------------------------------------------------------------------------
(* _get_search_direction, parser.py lines 143-178                          *)

HeaderRowLimit == 5

\* the year_positions entry of one cell: a cell with a year contributes
\* {'year': int(matches[0]), 'index': i}, i counted from 0
year_entry(text, matches, i) ==
    IF matches = {} THEN <<>>
    ELSE <<[year |-> int(first_year(text, Min(matches))), index |-> i - 1]>>
cell_year_positions(text, i) == year_entry(text, YEAR_PATTERN_findall(text), i)

\* for i, cell in enumerate(row.find_all(['th', 'td'])), lines 160-163
RECURSIVE row_year_positions(_, _)
row_year_positions(row, i) ==
    IF i > Len(row) THEN <<>>
    ELSE cell_year_positions(cell_text(row[i]), i) \o row_year_positions(row, i + 1)

\* for row in header_rows, line 159
RECURSIVE year_positions(_, _)
year_positions(header_rows, r) ==
    IF r > Len(header_rows) THEN <<>>
    ELSE row_year_positions(header_rows[r], 1) \o year_positions(header_rows, r + 1)

\* max(seq, key=year) and min(seq, key=year): the first of the extreme entries
py_max(seq) == seq[Min({i \in 1..Len(seq) : \A j \in 1..Len(seq) : seq[j].year <= seq[i].year})]
py_min(seq) == seq[Min({i \in 1..Len(seq) : \A j \in 1..Len(seq) : seq[j].year >= seq[i].year})]

\* table.find_all('tr', limit=5)
find_all_tr_limit(rows) ==
    SubSeq(rows, 1, IF Len(rows) < HeaderRowLimit THEN Len(rows) ELSE HeaderRowLimit)

\* the comparison of line 175 with >= for >
direction_or_equal(positions) ==
    IF positions = <<>> THEN "left-to-right"
    ELSE IF py_max(positions).index >= py_min(positions).index THEN "right-to-left"
    ELSE "left-to-right"

\* lines 166-178
direction_of(positions) ==
    IF positions = <<>> THEN "left-to-right"
    ELSE IF py_max(positions).index > py_min(positions).index THEN "right-to-left"
    ELSE "left-to-right"

_get_search_direction(table) == direction_of(year_positions(find_all_tr_limit(table.rows), 1))

-----------------------------------------------------------------------------
(* _find_value_in_row, parser.py lines 181-202                             *)

reversed(seq) == [i \in 1..Len(seq) |-> seq[Len(seq) + 1 - i]]

\* lines 196-201 for one cell: its value when the cell has the value shape
cell_value(text) == IF EPS_VALUE_PATTERN_match(text) THEN _format_eps_value(text) ELSE None

or_else(v, alt) == IF v # None /\ v # "" THEN v ELSE alt

\* for cell in cell_iterator, line 195
RECURSIVE first_value(_, _)
first_value(cell_iterator, i) ==
    IF i > Len(cell_iterator) THEN None
    ELSE or_else(cell_value(cell_text(cell_iterator[i])), first_value(cell_iterator, i + 1))

_find_value_in_row(cells, search_direction) ==
    first_value(IF search_direction = "right-to-left" THEN reversed(cells) ELSE cells, 1)

-----------------------------------------------------------------------------
(* _parse_eps_from_tables, parser.py lines 205-249                         *)

NoResult == <<None, None, None>>

\* a Python truth test of a string or None
Truthy(v) == v # None /\ v # ""

DirectionTag(search_direction) == IF search_direction = "right-to-left" THEN "R-L" ELSE "L-R"

Method(next_row, search_direction) ==
    "Table (" \o (IF next_row THEN "Next Row, " ELSE "") \o DirectionTag(search_direction)
        \o " Search)"

\* the matched row alone, the next row never consulted
current_row_only(pattern, eps_value, next_value, search_direction) ==
    IF Truthy(eps_value) THEN <<eps_value, Method(FALSE, search_direction), pattern.pattern>>
    ELSE NoResult

\* lines 234-245: the value of the matched row, else the value of the next row
row_or_next(pattern, eps_value, next_value, search_direction) ==
    IF Truthy(eps_value) THEN <<eps_value, Method(FALSE, search_direction), pattern.pattern>>
    ELSE IF Truthy(next_value) THEN <<next_value, Method(TRUE, search_direction), pattern.pattern>>
    ELSE NoResult

\* the body of "for i, row in enumerate(rows)" for one row, lines 229-245
try_row(pattern, rows, i, search_direction) ==
    IF re_search(pattern.re, join_split(row_get_text(rows[i])))
    THEN row_or_next(pattern,
                     _find_value_in_row(rows[i], search_direction),
                     IF i + 1 <= Len(rows)
                     THEN _find_value_in_row(rows[i + 1], search_direction) ELSE None,
                     search_direction)
    ELSE NoResult

\* a return inside a loop: the first result found ends the traversal
first_result(r, rest) == IF r # NoResult THEN r ELSE rest

\* for i, row in enumerate(rows), line 228
RECURSIVE scan_rows(_, _, _, _)
scan_rows(pattern, rows, i, search_direction) ==
    IF i > Len(rows) THEN NoResult
    ELSE first_result(try_row(pattern, rows, i, search_direction),
                      scan_rows(pattern, rows, i + 1, search_direction))

\* for table in soup.find_all('table'), lines 224-226
RECURSIVE scan_tables(_, _, _)
scan_tables(pattern, tables, t) ==
    IF t > Len(tables) THEN NoResult
    ELSE first_result(scan_rows(pattern, tables[t].rows, 1, _get_search_direction(tables[t])),
                      scan_tables(pattern, tables, t + 1))

\* the traversal with the loops exchanged: every pattern on the first table,
\* then every pattern on the second, ...
RECURSIVE patterns_on_table(_, _, _)
patterns_on_table(order, k, table) ==
    IF k > Len(order) THEN NoResult
    ELSE first_result(scan_rows(order[k], table.rows, 1, _get_search_direction(table)),
                      patterns_on_table(order, k + 1, table))

RECURSIVE tables_outermost(_, _, _)
tables_outermost(order, t, tables) ==
    IF t > Len(tables) THEN NoResult
    ELSE first_result(patterns_on_table(order, 1, tables[t]),
                      tables_outermost(order, t + 1, tables))

table_by_table(order, k, tables) == tables_outermost(order, 1, tables)

\* for priority ...: for pattern in EPS_KEYWORD_PATTERNS[priority], lines 220-222
RECURSIVE scan_patterns(_, _, _)
scan_patterns(order, k, tables) ==
    IF k > Len(order) THEN NoResult
    ELSE first_result(scan_tables(order[k], tables, 1), scan_patterns(order, k + 1, tables))

\* the except clause, lines 247-249: an exception raised during the traversal
\* is logged and the strategy returns (None, None, None)
_parse_eps_from_tables(doc) ==
    IF doc.fault = "table" THEN NoResult
    ELSE scan_patterns(PatternOrder, 1, find_all_table(doc))

-----------------------------------------------------------------------------
(* _parse_eps_with_regex, parser.py lines 252-277                          *)

Window == 50

\* (\(?\$\s?\d+\.\d+\)?) at t[q]: the position after the token, 0 when there is none
OneSpace(t, p) == IF p <= Len(t) /\ IsSpace(Char(t, p)) THEN p + 1 ELSE p
AfterDecimal(t, d) == IF d = 0 THEN 0 ELSE SkipChar(t, d, ")")
\* the token with the $ left optional
AfterOptionalDollar(t, p1) ==
    AfterDecimal(t, DecimalEnd(t, OneSpace(t, SkipChar(t, p1, "$"))))

AfterDollar(t, p1) ==
    IF p1 <= Len(t) /\ Char(t, p1) = "$" THEN AfterDecimal(t, DecimalEnd(t, OneSpace(t, p1 + 1)))
    ELSE 0
TokenEnd(t, q) == AfterDollar(t, SkipChar(t, q, "("))

\* re.compile(pattern.pattern + r".{0,50}?(\(?\$\s?\d+\.\d+\)?)", re.IGNORECASE)
\*   .search(full_text): group(1) of the match, None when there is no match.
\* The leftmost label start wins; the gap .{0,50}? is lazy, so the nearest token
\* after the label is taken; the optional parts of a label are greedy, so its
\* longest end is tried first.
Gaps(t, e) == {k \in 0..Window : e + k <= Len(t) /\ TokenEnd(t, e + k) # 0}
GoodEnds(re, t, i) == {e \in Ends(re, t, i) : Gaps(t, e) # {}}
token_at(t, q) == SubSeq(t, q, TokenEnd(t, q) - 1)
token_after(t, e) == token_at(t, e + Min(Gaps(t, e)))
group1(re, t, starts) ==
    IF starts = {} THEN None ELSE token_after(t, Max(GoodEnds(re, t, Min(starts))))
search_lowered(re, t) == group1(re, t, {i \in 1..(Len(t) + 1) : GoodEnds(re, t, i) # {}})
\* (the token has no letter: the group is the same in the lowered text)
augmented_search(pattern, full_text) == search_lowered(pattern.re, lower(full_text))

\* lines 273-276
regex_result(pattern, eps_value) ==
    IF Truthy(eps_value) THEN <<eps_value, "Regex", pattern.pattern>> ELSE NoResult

\* for priority ...: for pattern in EPS_KEYWORD_PATTERNS[priority], lines 267-276
RECURSIVE regex_patterns(_, _, _)
regex_patterns(order, k, full_text) ==
    IF k > Len(order) THEN NoResult
    ELSE first_result(regex_result(order[k], _format_eps_value(augmented_search(order[k], full_text))),
                      regex_patterns(order, k + 1, full_text))

_parse_eps_with_regex(doc) == regex_patterns(PatternOrder, 1, join_split(soup_get_text(doc)))

-----------------------------------------------------------------------------
(* The documents of a run                                                  *)

BasicRow == <<"Basic earnings per share", "0.41">>
DilutedRow == <<"Diluted earnings per share", "0.38">>
BasicProse == Prose("Our basic earnings per share was $0.41 for the quarter. ")
DilutedProse == Prose("Our diluted earnings per share was $0.38 for the quarter. ")

Corpus == {
    \* both labels in one table: the table strategy answers
    Document(<<Table(<<DilutedRow, BasicRow>>)>>, "none"),
    \* the diluted label alone, in a table
    Document(<<Table(<<<<"Revenue", "100">>, DilutedRow>>)>>, "none"),
    \* no table: the text strategy answers
    Document(<<BasicProse>>, "none"),
    \* a label without a value in the table, a number without $ in the prose
    Document(<<Table(<<<<"EPS", "n/a">>>>), Prose("EPS was 0.07")>>, "none"),
    \* the file cannot be opened or parsed
    Document(<<Table(<<BasicRow>>)>>, "open"),
    \* the table traversal raises; the prose still has the value
    Document(<<Table(<<BasicRow>>), DilutedProse>>, "table"),
    \* the text search raises after the tables gave nothing
    Document(<<BasicProse>>, "text") }

MaxFiles == 3

FileLists == UNION {[1..n -> Corpus] : n \in 0..MaxFiles}

PatternTexts == {Catalog[k].pattern : k \in 1..Len(Catalog)}

\* Documents that carry both labels, each label with its value: the basic
\* label with 0.41, the diluted label with 0.38.  A label and its value stand
\* in a table row, in a sentence that writes the value with $, or in a
\* sentence that writes it without.
BasicLabels == {"Basic earnings per share", "Basic EPS"}
DilutedLabels == {"Diluted earnings per share", "Diluted EPS"}
Placements == {"row", "prose $", "prose"}

Placed(label, value, placement) ==
    IF placement = "row" THEN Table(<<<<label, value>>>>)
    ELSE IF placement = "prose $" THEN Prose(label \o " was $" \o value)
    ELSE Prose(label \o " was " \o value)

InOrder(basic_first, basic, diluted) ==
    IF basic_first THEN <<basic, diluted>> ELSE <<diluted, basic>>

\* each label in a block of its own
BothLabels(b, pb, d, pd, basic_first) ==
    Document(InOrder(basic_first, Placed(b, "0.41", pb), Placed(d, "0.38", pd)), "none")

\* both labels in the rows of one table
OneTable(b, d, basic_first) ==
    Document(<<Table(InOrder(basic_first, <<b, "0.41">>, <<d, "0.38">>))>>, "none")

PriorityDocs ==
    {BothLabels(b, pb, d, pd, o) :
        b \in BasicLabels, pb \in Placements, d \in DilutedLabels, pd \in Placements,
        o \in BOOLEAN}
    \cup {OneTable(b, d, o) : b \in BasicLabels, d \in DilutedLabels, o \in BOOLEAN}

\* the documents the runs are made of
Inputs == Corpus \cup PriorityDocs

\* the two strategies tabulated on the documents of the runs:
\* on_tables[doc] is _parse_eps_from_tables(doc), on_text[doc] is
\* _parse_eps_with_regex(doc)
on_tables == [doc \in Inputs |-> _parse_eps_from_tables(doc)]
on_text == [doc \in Inputs |-> _parse_eps_with_regex(doc)]

\* no document parsed yet
NoSoup == Document(<<>>, "unparsed")

\* what a strategy that raised leaves in the trace
Raised == <<"<raised>", None, None>>

-----------------------------------------------------------------------------
(* main and parse_html_filing, parser.py lines 280-320 and 348-404         *)

\* the state main starts in, whatever the files
Begin ==
    /\ idx = 1
    /\ pc = "start"
    /\ soup = NoSoup
    /\ found = NoResult
    /\ KEYWORD_FREQUENCY = [p \in PatternTexts |-> 0]   \* defaultdict(int)
    /\ results = <<>>
    /\ calls = [i \in 1..Len(files) |-> <<>>]
    /\ arg = 0
    /\ ret = <<0, Pending>>

Init == files \in FileLists /\ Begin

\* a run over one document that carries both labels
InitPriority == files \in {<<doc>> : doc \in PriorityDocs} /\ Begin

\* lines 363-366: no HTML file, main returns before any output
NoFiles ==
    /\ pc = "start" /\ files = <<>>
    /\ pc' = "returned"
    /\ UNCHANGED <<files, idx, soup, found, KEYWORD_FREQUENCY, results, calls, arg, ret>>

\* lines 371-374: results = [] and the first iteration of the loop
StartLoop ==
    /\ pc = "start" /\ files # <<>>
    /\ pc' = "open"
    /\ UNCHANGED <<files, idx, soup, found, KEYWORD_FREQUENCY, results, calls, arg, ret>>

\* lines 290-296: open the file and parse it; an exception goes to line 317
Open ==
    /\ pc = "open"
    /\ arg' = idx
    /\ ret' = <<idx, Pending>>
    /\ found' = NoResult
    /\ IF files[idx].fault = "open"
       THEN soup' = NoSoup /\ pc' = "except"
       ELSE soup' = files[idx] /\ pc' = "table"
    /\ UNCHANGED <<files, idx, KEYWORD_FREQUENCY, results, calls>>

\* the fallback run whatever the tables returned
always_text(table_result) == "text"

\* line 302: if eps_value is None
after_tables(table_result) == IF table_result[1] = None THEN "text" ELSE "record"

\* lines 299-302: the table strategy, then the test eps_value is None
TableSearch ==
    /\ pc = "table"
    /\ found' = on_tables[soup]
    /\ calls' = [calls EXCEPT ![idx] = Append(@, [strategy |-> "table", outcome |-> found'])]
    /\ pc' = after_tables(found')
    /\ UNCHANGED <<files, idx, soup, KEYWORD_FREQUENCY, results, arg, ret>>

\* lines 303-304: the text strategy; an exception inside it goes to line 317
TextFallback ==
    /\ pc = "text"
    /\ IF soup.fault = "text"
       THEN /\ found' = found
            /\ calls' = [calls EXCEPT ![idx] = Append(@, [strategy |-> "text", outcome |-> Raised])]
            /\ pc' = "except"
       ELSE /\ found' = on_text[soup]
            /\ calls' = [calls EXCEPT ![idx] = Append(@, [strategy |-> "text", outcome |-> found'])]
            /\ pc' = "record"
    /\ UNCHANGED <<files, idx, soup, KEYWORD_FREQUENCY, results, arg, ret>>

\* the entry counted twice
increment_twice(frequency, keyword_pattern) == [frequency EXCEPT ![keyword_pattern] = @ + 2]

\* line 310: KEYWORD_FREQUENCY[keyword_pattern] += 1
increment(frequency, keyword_pattern) == [frequency EXCEPT ![keyword_pattern] = @ + 1]

\* lines 308-313: if keyword_pattern: count it
count_match(frequency, keyword_pattern) ==
    IF Truthy(keyword_pattern) THEN increment(frequency, keyword_pattern) ELSE frequency

\* lines 306-315: count the winning pattern, return (filename, eps_value)
Record ==
    /\ pc = "record"
    /\ KEYWORD_FREQUENCY' = count_match(KEYWORD_FREQUENCY, found[3])
    /\ ret' = <<arg, found[1]>>
    /\ pc' = "append"
    /\ UNCHANGED <<files, idx, soup, found, results, calls, arg>>

\* lines 317-320: except Exception: return filename, None
Except ==
    /\ pc = "except"
    /\ ret' = <<arg, None>>
    /\ pc' = "append"
    /\ UNCHANGED <<files, idx, soup, found, KEYWORD_FREQUENCY, results, calls, arg>>

\* the row written without the sentinel
csv_row_raw(fname, eps) == [filename |-> fname, EPS |-> eps]

\* lines 375-378: {"filename": fname, "EPS": eps if eps is not None else "Not Found"}
csv_row(fname, eps) == [filename |-> fname, EPS |-> IF eps # None THEN eps ELSE "Not Found"]

\* lines 372-378: the row is appended and the loop goes on with the next file
AppendResult ==
    /\ pc = "append"
    /\ results' = Append(results, csv_row(ret[1], ret[2]))
    /\ idx' = idx + 1
    /\ pc' = IF idx + 1 <= Len(files) THEN "open" ELSE "write"
    /\ UNCHANGED <<files, soup, found, KEYWORD_FREQUENCY, calls, arg, ret>>

\* lines 381-387: the rows are written to the CSV file, one per result
WriteCsv ==
    /\ pc = "write"
    /\ pc' = "done"
    /\ UNCHANGED <<files, idx, soup, found, KEYWORD_FREQUENCY, results, calls, arg, ret>>

Next ==
    \/ NoFiles
    \/ StartLoop
    \/ Open
    \/ TableSearch
    \/ TextFallback
    \/ Record
    \/ Except
    \/ AppendResult
    \/ WriteCsv

\* main is one sequential program: a step that can be taken is taken
Spec == Init /\ [][Next]_vars /\ WF_vars(Next)

\* the steps of a run whose one document can be read
NextPriority ==
    \/ StartLoop
    \/ Open
    \/ TableSearch
    \/ TextFallback
    \/ Record
    \/ AppendResult
    \/ WriteCsv

SpecPriority == InitPriority /\ [][NextPriority]_vars

-----------------------------------------------------------------------------
(* One function called on one argument: arg is the argument, ret what the  *)
(* call returns; main is not running.                                      *)

Idle ==
    /\ files = <<>>
    /\ idx = 1
    /\ soup = NoSoup
    /\ found = NoResult
    /\ KEYWORD_FREQUENCY = [p \in PatternTexts |-> 0]
    /\ results = <<>>
    /\ calls = <<>>

Called(arguments) == Idle /\ pc = "call" /\ arg \in arguments /\ ret = Pending

Return(value) ==
    /\ pc = "call"
    /\ ret' = value
    /\ pc' = "done"
    /\ UNCHANGED <<files, idx, soup, found, KEYWORD_FREQUENCY, results, calls, arg>>

\* _format_eps_value(raw_string) on the texts of at most MaxRawLen characters
\* over RawAlphabet, and on the texts of the function's own example and of
\* the cells and tokens the strategies hand it
MaxRawLen == 5
RawAlphabet == {"4", ".", "(", ")", " "}
RawExamples == {"(0.41)", "$0.41", "abc", "0.41 (est.)", "($0.41)", "$ 0.41", "0.41"}
RawStrings ==
    {concat(chars) : chars \in UNION {[1..n -> RawAlphabet] : n \in 0..MaxRawLen}}
        \cup RawExamples

InitNormalizer == Called(RawStrings)
FormatValue == Return(_format_eps_value(arg))
SpecNormalizer == InitNormalizer /\ [][FormatValue]_vars

\* _get_search_direction(table) on the tables of HeaderRowLimit + 1 rows and
\* NumCols columns that hold at most MaxTokens texts, in the first row, in
\* the last row the function reads and in the row after it
NumCols == 2
MaxTokens == 3
YearTexts == {"2020", "2021", "FY2022", "2019 vs 2022"}
HeaderRows == {1, HeaderRowLimit, HeaderRowLimit + 1}
Placings == {cells \in SUBSET (HeaderRows \X (1..NumCols)) : Cardinality(cells) <= MaxTokens}

HeaderTable(texts) ==
    Table([r \in 1..(HeaderRowLimit + 1) |->
            [c \in 1..NumCols |-> IF <<r, c>> \in DOMAIN texts THEN texts[<<r, c>>] ELSE ""]])

InitDirection ==
    \E cells \in Placings : \E texts \in [cells -> YearTexts] : Called({HeaderTable(texts)})
InferDirection == Return(_get_search_direction(arg))
SpecDirection == InitDirection /\ [][InferDirection]_vars

\* _parse_eps_from_tables(soup) on the documents of at most MaxRows rows,
\* cut into tables at any place
MaxRows == 3
RowTexts == {
    <<"Basic earnings per share", "0.41", "0.55">>,
    <<"Earnings per share", "0.07", "(0.09)">>,
    \* a label whose values stand in the next row
    <<"Diluted EPS", "", "">>,
    \* values without a label
    <<"", "$ 1.25", "1.30">>,
    \* a header: the later year on the right
    <<"", "2020", "2021">> }

\* the rows in order, a new table starting at row 1 and at every row of cuts
TableStart(cuts, t) == CHOOSE r \in cuts \cup {1} : Cardinality({q \in cuts \cup {1} : q < r}) = t - 1
TableEnd(cuts, start, n) == Min({r - 1 : r \in {q \in cuts : q > start}} \cup {n})
Cut(rows, cuts, start) == Table(SubSeq(rows, start, TableEnd(cuts, start, Len(rows))))
TableDoc(rows, cuts) ==
    Document(IF rows = <<>> THEN <<>>
             ELSE [t \in 1..Cardinality(cuts \cup {1}) |-> Cut(rows, cuts, TableStart(cuts, t))],
             "none")

TableDocs ==
    UNION {{TableDoc(rows, cuts) : rows \in [1..n -> RowTexts], cuts \in SUBSET (2..n)} :
            n \in 0..MaxRows}

InitTable == Called(TableDocs)
SearchTables == Return(_parse_eps_from_tables(arg))
SpecTable == InitTable /\ [][SearchTables]_vars

\* _parse_eps_with_regex(soup) on the sentences made of a label, a filler of
\* some length and a number written in one of the forms of NumberForms
LabelTexts == <<
    "Basic earnings per share",
    "Net income per share - basic",
    "Loss (loss) per share ^ basic",
    "Basic EPS",
    "Basic",
    "Diluted earnings per common share",
    "Net earnings (loss) per common share ^ diluted",
    "Income (loss per share -diluted",
    "Diluted EPS",
    "per diluted share",
    "EPS",
    "Net loss per share",
    "per common share" >>

NumberForms == {"$0.41", "($0.41)", "$ 0.41", "0.41", "(0.41)"}

FillerLengths == {0, 1, Window - 1, Window, Window + 1}

\* n characters that hold no digit, no $ and no label: a blank, then letters
Filler(n) == concat([i \in 1..n |-> IF i = 1 THEN " " ELSE "x"])

Sentence(label, n, number) == Document(<<Prose(label \o Filler(n) \o number)>>, "none")

InitText ==
    \E k \in 1..Len(LabelTexts), n \in FillerLengths, number \in NumberForms :
        Called({Sentence(LabelTexts[k], n, number)})
SearchText == Return(_parse_eps_with_regex(arg))
SpecText == InitText /\ [][SearchText]_vars

-----------------------------------------------------------------------------
(* Reading a run                                                           *)

\* the files whose parse_html_filing call has returned
Returned == {i \in 1..Len(files) : i <= Len(results) \/ (pc = "append" /\ i = idx)}

\* the EPS value parse_html_filing returned for file i, None when absent
ReturnedValue(i) ==
    IF i <= Len(results)
    THEN IF results[i].EPS = "Not Found" THEN None ELSE results[i].EPS
    ELSE ret[2]

LastCall(i) == calls[i][Len(calls[i])]

\* (value, method, pattern) file i ended with; NoResult when it ended absent
Final(i) ==
    IF calls[i] = <<>> \/ LastCall(i).outcome = Raised THEN NoResult ELSE LastCall(i).outcome

Total(frequency) == Cardinality({<<p, n>> \in PatternTexts \X (1..(MaxFiles + 1)) : n <= frequency[p]})

Terminated == pc \in {"done", "returned"}

-----------------------------------------------------------------------------
(* C2: per document the table strategy runs first and the text strategy    *)
(* runs only after the table strategy returned no value; a table value     *)
(* ends the document with that value and the text strategy is not run;     *)
(* otherwise the text strategy runs exactly once and its outcome is the    *)
(* document's outcome; every document reaches Done.                        *)

C2_TableFirst(i) ==
    \/ calls[i] = <<>>
    \/ /\ calls[i][1].strategy = "table"
       /\ \/ Len(calls[i]) = 1
          \/ /\ Len(calls[i]) = 2
             /\ calls[i][1].outcome[1] = None
             /\ calls[i][2].strategy = "text"

C2_Outcome(i) ==
    calls[i] # <<>> =>
        IF calls[i][1].outcome[1] # None
        THEN Len(calls[i]) = 1 /\ ReturnedValue(i) = calls[i][1].outcome[1]
        ELSE /\ Len(calls[i]) = 2
             /\ ReturnedValue(i) = IF calls[i][2].outcome = Raised THEN None
                                   ELSE calls[i][2].outcome[1]

C2_Safety ==
    /\ \A i \in 1..Len(files) : C2_TableFirst(i)
    /\ \A i \in Returned : C2_Outcome(i)

C2_AllDone == Terminated /\ Len(results) = Len(files)

C2_Orchestration == [] C2_Safety /\ <> C2_AllDone

C2_Witness ==
    /\ pc = "done"
    /\ \E i, j \in 1..Len(files) :
        /\ Len(calls[i]) = 1 /\ results[i].EPS = "0.41"
        /\ Len(calls[j]) = 2 /\ results[j].EPS = "0.41"

-----------------------------------------------------------------------------
(* C3 as stated: a failure while processing one document (unreadable file, *)
(* parse error, exception inside either strategy) never stops the run;     *)
(* that document ends as absent, every later document is processed, and    *)
(* the output holds one (filename, EPS) record per input file, with the    *)
(* string "Not Found" for every absent result.                             *)

OneRowPerFile ==
    /\ Len(results) = Len(files)
    /\ \A i \in 1..Len(files) : results[i].filename = i /\ results[i].EPS # None

C3_Original ==
    /\ pc = "done" => OneRowPerFile
    /\ \A i \in 1..Len(results) : files[i].fault # "none" => results[i].EPS = "Not Found"

(* C3 as amended: an exception that reaches parse_html_filing (unreadable   *)
(* file, parse error, exception inside the text strategy) ends the         *)
(* document as absent; an exception inside the table strategy is caught    *)
(* there and counts as "no table result", after which the text strategy    *)
(* decides the document's outcome; in every case the run goes on and the   *)
(* output holds one (filename, EPS) record per input file, "Not Found"     *)
(* standing for every absent result.                                       *)

ReachedOrchestrator(i) ==
    \/ files[i].fault = "open"
    \/ calls[i] # <<>> /\ LastCall(i).outcome = Raised

C3_TableFailure(i) ==
    files[i].fault = "table" =>
        /\ Len(calls[i]) = 2
        /\ calls[i][1].outcome = NoResult
        /\ results[i].EPS = IF calls[i][2].outcome[1] = None \/ calls[i][2].outcome = Raised
                            THEN "Not Found" ELSE calls[i][2].outcome[1]

C3_Containment ==
    /\ pc = "done" => OneRowPerFile
    /\ \A i \in 1..Len(results) :
        /\ ReachedOrchestrator(i) => results[i].EPS = "Not Found"
        /\ C3_TableFailure(i)
        /\ Final(i)[1] = None => results[i].EPS = "Not Found"

C3_Witness ==
    /\ pc = "done" /\ Len(files) = 3
    /\ files[1].fault = "open" /\ results[1].EPS = "Not Found"
    /\ files[2].fault = "table" /\ results[2].EPS = "0.38"
    /\ files[3].fault = "text" /\ results[3].EPS = "Not Found"

-----------------------------------------------------------------------------
(* C4: the Keyword Frequency Table has been incremented exactly once, on   *)
(* the winning pattern's entry, for each document that returned a value,   *)
(* and not at all for a document that ended absent; no count decreases;    *)
(* the sum of the counts is the number of documents that returned a value. *)

Winner(i) == IF ReturnedValue(i) = None THEN None ELSE Final(i)[3]

C4_Counts ==
    /\ \A p \in PatternTexts :
        KEYWORD_FREQUENCY[p] = Cardinality({i \in Returned : Winner(i) = p})
    /\ Total(KEYWORD_FREQUENCY) = Cardinality({i \in Returned : ReturnedValue(i) # None})

C4_Step ==
    /\ \A p \in PatternTexts : KEYWORD_FREQUENCY'[p] >= KEYWORD_FREQUENCY[p]
    /\ Total(KEYWORD_FREQUENCY') <= Total(KEYWORD_FREQUENCY) + 1

C4_Frequency == [] C4_Counts /\ [][C4_Step]_vars

C4_Witness ==
    /\ pc = "done" /\ Len(files) = 3
    /\ results[1].EPS = "Not Found" /\ results[2].EPS = "0.41" /\ results[3].EPS = "0.38"
    /\ KEYWORD_FREQUENCY["basic earnings per (common )?share"] = 1
    /\ KEYWORD_FREQUENCY["diluted earnings per (common )?share"] = 1

-----------------------------------------------------------------------------
(* C7: extraction does not depend on the run's history: whatever the       *)
(* order of the documents and whatever the Frequency Table holds, a        *)
(* document yields the same (value, method, pattern); an identical         *)
(* document processed twice yields the identical triple; the final counts  *)
(* are those of the documents taken one by one.                            *)

\* parse_html_filing as a function of the document alone
text_step(doc) == IF doc.fault = "text" THEN NoResult ELSE _parse_eps_with_regex(doc)
extract(doc) ==
    IF doc.fault = "open" THEN NoResult
    ELSE first_result(_parse_eps_from_tables(doc), text_step(doc))

C7_HistoryFree ==
    /\ \A i, j \in Returned : files[i] = files[j] => Final(i) = Final(j)
    /\ pc = "done" =>
        /\ \A i \in 1..Len(files) : Final(i) = extract(files[i])
        /\ \A p \in PatternTexts :
            KEYWORD_FREQUENCY[p] = Cardinality({i \in 1..Len(files) : Final(i)[3] = p})

C7_Witness ==
    /\ pc = "done" /\ Len(files) = 3
    /\ files[1] = files[3] /\ files[1] # files[2]
    /\ Final(1)[1] = "0.41" /\ Final(2)[1] = "0.38" /\ Final(3)[1] = "0.41"
    /\ KEYWORD_FREQUENCY["diluted earnings per (common )?share"] = 1

-----------------------------------------------------------------------------
(* C1 as stated: for every document that contains both a basic-EPS label   *)
(* with value 0.41 and a diluted-EPS label with value 0.38,                *)
(* parse_html_filing returns 0.41, whatever the order of the two labels    *)
(* and whichever strategy is able to locate each label.                    *)

RowLabels == {"Basic earnings per share", "Basic EPS", "Diluted earnings per share"}

InTableRow(doc, labels) ==
    \E t \in 1..Len(doc.blocks) :
        /\ doc.blocks[t].kind = "table"
        /\ \E r \in 1..Len(doc.blocks[t].rows) :
            doc.blocks[t].rows[r][1] \in labels \cap RowLabels

WithDollar(doc, labels, value) ==
    \E t \in 1..Len(doc.blocks) :
        /\ doc.blocks[t].kind = "p"
        /\ \E label \in labels : doc.blocks[t].text = label \o " was $" \o value

Glued(doc) ==
    /\ Len(doc.blocks) = 2
    /\ doc.blocks[2].kind = "p"
    /\ SubSeq(doc.blocks[2].text, 1, Len("Basic EPS")) = "Basic EPS"

C1_Expected(doc) ==
    IF InTableRow(doc, BasicLabels) THEN "0.41"
    ELSE IF InTableRow(doc, DilutedLabels) THEN "0.38"
    ELSE IF /\ WithDollar(doc, BasicLabels, "0.41")
            /\ ~(Glued(doc) /\ WithDollar(doc, DilutedLabels, "0.38")) THEN "0.41"
    ELSE IF WithDollar(doc, DilutedLabels, "0.38") THEN "0.38"
    ELSE "Not Found"

-----------------------------------------------------------------------------
(* C6: _format_eps_value returns the first substring of shape              *)
(* digits.digits of its input, prefixed with "-" exactly when that value   *)
(* is enclosed in parentheses and unsigned otherwise, and returns absent   *)
(* when the input has no such substring: "(0.41)" gives "-0.41", "$0.41"   *)
(* gives "0.41", "abc" gives absent, "0.41 (est.)" gives "0.41".           *)

AllDigits(s, i, j) == i <= j /\ \A k \in i..j : IsDigit(Char(s, k))

\* s[i..j] has the shape digits.digits
IsDecimal(s, i, j) == \E dot \in (i + 1)..(j - 1) :
    Char(s, dot) = "." /\ AllDigits(s, i, dot - 1) /\ AllDigits(s, dot + 1, j)

Decimals(s) == {ij \in (1..Len(s)) \X (1..Len(s)) : IsDecimal(s, ij[1], ij[2])}

\* the first one: the leftmost start, and from there as far as the shape goes
FirstDecimal(s) ==
    CHOOSE ij \in Decimals(s) : \A other \in Decimals(s) :
        ij[1] < other[1] \/ (ij[1] = other[1] /\ ij[2] >= other[2])

\* an opening parenthesis before the value and a closing one after it
Enclosed(s, ij) ==
    /\ \E open \in 1..(ij[1] - 1) : Char(s, open) = "("
    /\ \E close \in (ij[2] + 1)..Len(s) : Char(s, close) = ")"

C6_Value(s, ij) == IF Enclosed(s, ij) THEN "-" \o SubSeq(s, ij[1], ij[2]) ELSE SubSeq(s, ij[1], ij[2])

C6_Expected(s) == IF Decimals(s) = {} THEN None ELSE C6_Value(s, FirstDecimal(s))

C6_Normalizer == pc = "done" => ret = C6_Expected(arg)

\* the input of the last example, and what the function returns for it
C6_Witness == pc = "done" /\ arg = "0.41 (est.)" /\ ret = "-0.41"

-----------------------------------------------------------------------------
(* C10: the Direction Inferencer, scanning at most the first 5 rows of a   *)
(* table, returns right-to-left exactly when the column index of the       *)
(* maximum year token is greater than the column index of the minimum year *)
(* token, and left-to-right in every degenerate case: no year token, a     *)
(* single year token, all year tokens carrying the same year.  A cell      *)
(* gives one year token, the first year written in it; of several tokens   *)
(* with the maximum (minimum) year the first in reading order counts.      *)

\* the year a text gives, 0 when it gives none
C10_Year(text) ==
    CASE text = "2020" -> 2020
      [] text = "2021" -> 2021
      [] text = "2019 vs 2022" -> 2019
      [] OTHER -> 0

C10_Tokens(rows) ==
    {[row |-> r, index |-> c - 1, year |-> C10_Year(rows[r][c])] :
        <<r, c>> \in {rc \in (1..Min({5, Len(rows)})) \X (1..NumCols) :
                        C10_Year(rows[rc[1]][rc[2]]) # 0}}

C10_Earlier(a, b) == a.row < b.row \/ (a.row = b.row /\ a.index <= b.index)
C10_First(tokens) == CHOOSE a \in tokens : \A b \in tokens : C10_Earlier(a, b)
C10_Maximum(tokens) == C10_First({a \in tokens : \A b \in tokens : b.year <= a.year})
C10_Minimum(tokens) == C10_First({a \in tokens : \A b \in tokens : b.year >= a.year})

C10_Degenerate(tokens) == Cardinality({a.year : a \in tokens}) <= 1

C10_Expected(tokens) ==
    IF tokens # {} /\ C10_Maximum(tokens).index > C10_Minimum(tokens).index
    THEN "right-to-left" ELSE "left-to-right"

C10_Direction ==
    pc = "done" =>
        /\ ret = C10_Expected(C10_Tokens(arg.rows))
        /\ C10_Degenerate(C10_Tokens(arg.rows)) => ret = "left-to-right"

\* 2020 in column 0 and 2021 in column 1 of the fifth row give right-to-left;
\* the 2019 in column 1 of the sixth row is not read
C10_Witness ==
    /\ pc = "done"
    /\ arg.rows[5][1] = "2020" /\ arg.rows[5][2] = "2021"
    /\ arg.rows[6][2] = "2019 vs 2022"
    /\ ret = "right-to-left"

-----------------------------------------------------------------------------
(* C8: the Table Extraction Strategy returns the candidate that is first   *)
(* in the lexicographic order (tier basic < diluted < generic, pattern     *)
(* position within the tier, table in document order, row in document      *)
(* order): a pattern earlier in the catalog that yields a value in any     *)
(* table or row wins over every later pattern, even when the later         *)
(* pattern's row stands earlier in the document or in an earlier table;    *)
(* it returns "no table result" only when no candidate yields a value.     *)

TierRank(tier) == CASE tier = "basic" -> 1 [] tier = "diluted" -> 2 [] tier = "generic" -> 3

\* what candidate c = <<tier, position, table, row>> yields
C8_Yield(tables, c) ==
    try_row(EPS_KEYWORD_PATTERNS[c[1]][c[2]], tables[c[3]].rows, c[4],
            _get_search_direction(tables[c[3]]))

C8_Positions(tables) ==
    {c \in {"basic", "diluted", "generic"} \X (1..5) \X (1..Len(tables)) \X (1..(MaxRows + 1)) :
        c[2] <= Len(EPS_KEYWORD_PATTERNS[c[1]]) /\ c[4] <= Len(tables[c[3]].rows)}

C8_Candidates(tables) == {c \in C8_Positions(tables) : C8_Yield(tables, c) # NoResult}

RECURSIVE C8_Before(_, _, _)
C8_Before(a, b, n) ==
    /\ n <= 4
    /\ \/ a[n] < b[n]
       \/ a[n] = b[n] /\ C8_Before(a, b, n + 1)

C8_Key(c) == <<TierRank(c[1]), c[2], c[3], c[4]>>

C8_First(candidates) ==
    CHOOSE c \in candidates :
        \A other \in candidates : other = c \/ C8_Before(C8_Key(c), C8_Key(other), 1)

C8_Expected(tables, candidates) ==
    IF candidates = {} THEN NoResult ELSE C8_Yield(tables, C8_First(candidates))

C8_Lexicographic == pc = "done" => ret = C8_Expected(arg.blocks, C8_Candidates(arg.blocks))

\* a row of the generic tier stands in the first table, the basic row in the
\* second, and the basic value is returned
C8_Witness ==
    /\ pc = "done"
    /\ Len(arg.blocks) = 2
    /\ arg.blocks[1].rows = <<<<"Earnings per share", "0.07", "(0.09)">>>>
    /\ arg.blocks[2].rows = <<<<"Basic earnings per share", "0.41", "0.55">>>>
    /\ ret = <<"0.41", "Table (L-R Search)", "basic earnings per (common )?share">>

-----------------------------------------------------------------------------
(* C9: for a row whose text matches the current pattern the Locator is     *)
(* applied to that row first; the next row of the same table is consulted  *)
(* only when the matched row has no cell of the exact value shape, with    *)
(* the same direction, and a value found there is returned with the method *)
(* tagged "Next Row"; when neither row yields a value, or the matched row  *)
(* is the last of its table, the search goes on with the later rows,       *)
(* tables and patterns.                                                    *)

C9_HasValue(row) == \E c \in 1..Len(row) : EPS_VALUE_PATTERN_match(strip(row[c]))

C9_Matched(k, rows, i) == re_search(Catalog[k].re, join_split(row_get_text(rows[i])))

C9_Tag(direction) == IF direction = "right-to-left" THEN "R-L Search)" ELSE "L-R Search)"

\* what the row i of a table gives for the pattern k
C9_Row(k, rows, i, direction) ==
    IF ~C9_Matched(k, rows, i) THEN NoResult
    ELSE IF C9_HasValue(rows[i])
    THEN <<_find_value_in_row(rows[i], direction), "Table (" \o C9_Tag(direction),
           Catalog[k].pattern>>
    ELSE IF i < Len(rows) /\ C9_HasValue(rows[i + 1])
    THEN <<_find_value_in_row(rows[i + 1], direction), "Table (Next Row, " \o C9_Tag(direction),
           Catalog[k].pattern>>
    ELSE NoResult

C9_At(tables, k, t, i) == C9_Row(k, tables[t].rows, i, _get_search_direction(tables[t]))

\* the steps of the search, in its order
C9_Steps(tables) ==
    {kti \in (1..Len(Catalog)) \X (1..Len(tables)) \X (1..MaxRows + 1) :
        kti[3] <= Len(tables[kti[2]].rows)}

C9_Earlier(a, b) ==
    \/ a[1] < b[1]
    \/ a[1] = b[1] /\ a[2] < b[2]
    \/ a[1] = b[1] /\ a[2] = b[2] /\ a[3] < b[3]

\* the search stops at step a with what the step gives
C9_StopsAt(tables, a) ==
    /\ C9_At(tables, a[1], a[2], a[3]) # NoResult
    /\ \A b \in C9_Steps(tables) :
        C9_Earlier(b, a) => C9_At(tables, b[1], b[2], b[3]) = NoResult

C9_NextRow ==
    pc = "done" =>
        IF ret = NoResult
        THEN \A a \in C9_Steps(arg.blocks) : C9_At(arg.blocks, a[1], a[2], a[3]) = NoResult
        ELSE \E a \in C9_Steps(arg.blocks) :
                /\ Catalog[a[1]].pattern = ret[3]
                /\ ret = C9_At(arg.blocks, a[1], a[2], a[3])
                /\ C9_StopsAt(arg.blocks, a)

\* the label row is the last of its table: the values of the next table are
\* not taken for it; the label row of the second table has its values in the
\* row after it
C9_Witness ==
    /\ pc = "done"
    /\ Len(arg.blocks) = 2
    /\ arg.blocks[1].rows = <<<<"Diluted EPS", "", "">>>>
    /\ arg.blocks[2].rows = <<<<"Diluted EPS", "", "">>, <<"", "$ 1.25", "1.30">>>>
    /\ ret = <<"1.25", "Table (Next Row, L-R Search)", "\\bdiluted eps\\b">>

-----------------------------------------------------------------------------
(* C5 as stated: in the Text Fallback Strategy the currency mark of the    *)
(* numeric token is optional: for each catalog pattern, a label match      *)
(* followed within at most 50 characters by a decimal number is accepted   *)
(* whether the number is written with a $, without one, or parenthesized,  *)
(* and its normalized value is returned with method "Regex".               *)

\* the normalized value of a number form
C5_Value(number) == IF Char(number, 1) = "(" THEN "-0.41" ELSE "0.41"

\* the characters of a number form before its first digit
C5_Lead(number) == CHOOSE n \in 0..Len(number) : SubSeq(number, n + 1, n + 4) = "0.41"

C5_Accepted(k, number) == <<C5_Value(number), "Regex", Catalog[k].pattern>>

C5_Original ==
    pc = "done" =>
        \A k \in 1..Len(LabelTexts), n \in FillerLengths, number \in NumberForms :
            /\ arg = Sentence(LabelTexts[k], n, number)
            /\ n + C5_Lead(number) <= 50
            /\ re_search(Catalog[k].re, arg.blocks[1].text)
            => ret = C5_Accepted(k, number)

(* C5 as amended: in the Text Fallback Strategy the currency mark of the   *)
(* numeric token is required: for each catalog pattern, a label match      *)
(* followed within at most 50 characters by a token that begins with $ or  *)
(* with ($ is accepted, the $ directly before the number or one blank      *)
(* before it, and its normalized value is returned with method "Regex"; a  *)
(* number written without $, parenthesized or not, is not accepted, and    *)
(* neither is a token that begins more than 50 characters after the label. *)

C5_HasDollar(number) == \E i \in 1..Len(number) : Char(number, i) = "$"

C5_Dollar ==
    pc = "done" =>
        \A k \in 1..Len(LabelTexts), n \in FillerLengths, number \in NumberForms :
            arg = Sentence(LabelTexts[k], n, number) =>
                ret = IF C5_HasDollar(number) /\ n <= 50 THEN C5_Accepted(k, number)
                      ELSE NoResult

\* the parenthesized token with its $ begins 50 characters after the label
C5_Witness ==
    /\ pc = "done"
    /\ arg = Sentence("Diluted EPS", Window, "($0.41)")
    /\ ret = <<"-0.41", "Regex", "\\bdiluted eps\\b">>

====
